---- MODULE Spec2Model ----
(***************************************************************************)
(* A model of atscppapi's AsyncTimer (src/src/AsyncTimer.cc): one timer,   *)
(* its AsyncTimerState, and the host event loop it schedules itself on.    *)
(*                                                                         *)
(* The program's operations are the actions: run() (the caller starts the  *)
(* timer), handleTimerEvent (the host delivers a scheduled event to the    *)
(* timer's continuation) and ~AsyncTimer (run by the caller's delete, or   *)
(* from inside handleTimerEvent when dispatch() returned false).  Init is  *)
(* the state right after the constructor.                                  *)
(*                                                                         *)
(* The host loop is the external collaborator: an action handle is the     *)
(* index of a record in `actions`; TSContSchedule adds an event that is    *)
(* delivered once, TSContScheduleEvery one that is delivered again every   *)
(* period, TSActionCancel marks a handle cancelled.  Time is a logical     *)
(* clock that advances to the due time of the event being delivered.       *)
(*                                                                         *)
(* Spec takes every operation as one step, the per-continuation serial     *)
(* execution the host gives the handler; the caller obeys the contract of  *)
(* the class: run() at most once, and no use of a timer that is deleted.   *)
(* ThreadsSpec cuts run(), the destructor and the handler where the        *)
(* caller's thread and a worker thread of the host can interleave.         *)
(***************************************************************************)
EXTENDS Integers, Sequences, FiniteSets, TLC

\* Bounds of the model: the periods tried, and the number of deliveries.
MaxPeriod == 2
MaxFires == 4

NULL == 0
TYPE_ONE_OFF == "TYPE_ONE_OFF"
TYPE_PERIODIC == "TYPE_PERIODIC"

VARIABLES
  type_,                  \* AsyncTimerState::type_
  period_in_ms_,          \* AsyncTimerState::period_in_ms_
  initial_period_in_ms_,  \* AsyncTimerState::initial_period_in_ms_
  initial_timer_action_,  \* AsyncTimerState::initial_timer_action_ (NULL or a handle)
  periodic_timer_action_, \* AsyncTimerState::periodic_timer_action_ (NULL or a handle)
  dispatch_controller_,   \* whether run() has stored the controller
  ran,                    \* the caller has called run()
  actions,                \* the host's events, indexed by action handle
  now,                    \* the host's logical clock, in ms
  callbacks,              \* invocations of handleTimerEvent so far
  dispatches,             \* the dispatch() calls made, in order
  cancelLog,              \* the TSActionCancel calls made, in order
  deleteLog,              \* the runs of ~AsyncTimer, in order
  peakLive,               \* most handles non-NULL at once, over every program point
  contDestroyed,          \* TSContDestroy calls on cont_
  stateReleased,          \* delete state_ executions
  useAfterRelease,        \* the handler ran on a released state
  unsetControllerUse,     \* the handler called dispatch() on a controller not yet stored
  pcCaller,               \* where the caller's thread is, inside run() or the destructor
  pcHandler               \* where the worker thread is, inside handleTimerEvent

vars == <<type_, period_in_ms_, initial_period_in_ms_, initial_timer_action_,
          periodic_timer_action_, dispatch_controller_, ran, actions, now,
          callbacks, dispatches, cancelLog, deleteLog, peakLive,
          contDestroyed, stateReleased, useAfterRelease,
          unsetControllerUse, pcCaller, pcHandler>>

\* Left alone by the operations taken as one step.
threads == <<unsetControllerUse, pcCaller, pcHandler>>

Types == {TYPE_ONE_OFF, TYPE_PERIODIC}
\* The periods of the scenario "initial=50ms, period=200ms".
ScenarioPeriods == {50, 200}

Periods == (0..MaxPeriod) \cup ScenarioPeriods

\* ------------------------------------------------------------ host loop

\* scheduleOnce: a new event, delivered once, delay ms from time t.
TSContSchedule(acts, delay, t, who) ==
  Append(acts, [kind |-> "once", period |-> delay, due |-> t + delay,
                status |-> "pending", by |-> who])

\* scheduleEvery: a new event, delivered every period ms from time t on.
TSContScheduleEvery(acts, period, t, who) ==
  Append(acts, [kind |-> "every", period |-> period, due |-> t + period,
                status |-> "pending", by |-> who])

\* cancel: the handle's event is delivered no more.
TSActionCancel(acts, h) == [acts EXCEPT ![h].status = "cancelled"]

\* The host delivers event h: a one-off event is spent, a periodic one is
\* due again one period later.
Delivered(acts, h) ==
  IF acts[h].kind = "once"
    THEN [acts EXCEPT ![h].status = "fired"]
    ELSE [acts EXCEPT ![h].due = @ + acts[h].period]

Pending(acts) == {h \in 1..Len(acts) : acts[h].status = "pending"}

\* The host delivers the pending event that is due first.
NextDue(acts, h) ==
  /\ h \in Pending(acts)
  /\ \A g \in Pending(acts) : acts[h].due <= acts[g].due

Live(i, p) == (IF i # NULL THEN 1 ELSE 0) + (IF p # NULL THEN 1 ELSE 0)

Max(a, b) == IF a >= b THEN a ELSE b

\* ------------------------------------------------------------ constructor

Init ==
  /\ type_ \in Types
  /\ period_in_ms_ \in Periods
  /\ initial_period_in_ms_ \in Periods
  /\ initial_timer_action_ = NULL
  /\ periodic_timer_action_ = NULL
  /\ dispatch_controller_ = FALSE
  /\ ran = FALSE
  /\ actions = <<>>
  /\ now = 0
  /\ callbacks = 0
  /\ dispatches = <<>>
  /\ cancelLog = <<>>
  /\ deleteLog = <<>>
  /\ peakLive = 0
  /\ contDestroyed = 0
  /\ stateReleased = 0
  /\ useAfterRelease = FALSE
  /\ unsetControllerUse = FALSE
  /\ pcCaller = "idle"
  /\ pcHandler = "idle"

\* ------------------------------------------------------------ ~AsyncTimer

\* A slip: the destructor does not cancel the initial event.
DtorCancelsInitial_Never(i) == FALSE

DtorCancelsInitial(i) == i # NULL

\* A slip: the destructor does not cancel the periodic event.
DtorCancelsPeriodic_Never(p) == FALSE

DtorCancelsPeriodic(p) == p # NULL

\* A cancel made by the destructor: the handle, what its event was, and how
\* many TSContDestroy and delete state_ the timer had executed by then (the
\* destructor's cancels come before both).
CancelEntry(acts, h) ==
  [handle |-> h, was |-> acts[h].status,
   contDestroyed |-> contDestroyed, stateReleased |-> stateReleased]

\* The host's events after the destructor's cancels, the timer's handles
\* being i and p when it runs.
DtorActions(acts, i, p) ==
  LET a1 == IF DtorCancelsInitial(i) THEN TSActionCancel(acts, i) ELSE acts
  IN  IF DtorCancelsPeriodic(p) THEN TSActionCancel(a1, p) ELSE a1

\* The cancels the destructor makes, each with what the handle's event was
\* when it was cancelled.
DtorCancelLog(log, acts, i, p) ==
  LET a1 == IF DtorCancelsInitial(i) THEN TSActionCancel(acts, i) ELSE acts
      l1 == IF DtorCancelsInitial(i)
              THEN Append(log, CancelEntry(acts, i))
              ELSE log
  IN  IF DtorCancelsPeriodic(p)
        THEN Append(l1, CancelEntry(a1, p))
        ELSE l1

\* delete timer, by the caller: only a timer that still exists.
CallerDelete ==
  /\ stateReleased = 0
  /\ actions' = DtorActions(actions, initial_timer_action_, periodic_timer_action_)
  /\ cancelLog' = DtorCancelLog(cancelLog, actions, initial_timer_action_,
                                periodic_timer_action_)
  /\ deleteLog' = Append(deleteLog, [by |-> "caller", cb |-> 0])
  /\ contDestroyed' = contDestroyed + 1
  /\ stateReleased' = stateReleased + 1
  /\ UNCHANGED <<type_, period_in_ms_, initial_period_in_ms_,
                 initial_timer_action_, periodic_timer_action_,
                 dispatch_controller_, ran, now, callbacks, dispatches,
                 peakLive, useAfterRelease, threads>>

\* ------------------------------------------------------------ run

\* A slip: the two periods swapped.
one_off_timeout_in_ms_Swapped ==
  IF type_ = TYPE_ONE_OFF THEN initial_period_in_ms_ ELSE period_in_ms_

one_off_timeout_in_ms ==
  IF type_ = TYPE_ONE_OFF THEN period_in_ms_ ELSE initial_period_in_ms_

regular_timeout_in_ms ==
  IF type_ = TYPE_ONE_OFF THEN 0 ELSE period_in_ms_

RunArmsInitial == one_off_timeout_in_ms # 0

\* A slip: "if" for "else if"; run() then arms both.
RunArmsPeriodic_NoElse == regular_timeout_in_ms # 0

\* A slip: a plain "else"; the zero test on the regular timeout is lost.
RunArmsPeriodic_NoZeroTest == ~RunArmsInitial

RunArmsPeriodic == ~RunArmsInitial /\ regular_timeout_in_ms # 0

run ==
  /\ ~ran
  /\ stateReleased = 0
  /\ LET a1 == IF RunArmsInitial
                 THEN TSContSchedule(actions, one_off_timeout_in_ms, now, "run")
                 ELSE actions
         i1 == IF RunArmsInitial THEN Len(a1) ELSE initial_timer_action_
         a2 == IF RunArmsPeriodic
                 THEN TSContScheduleEvery(a1, regular_timeout_in_ms, now, "run")
                 ELSE a1
         p1 == IF RunArmsPeriodic THEN Len(a2) ELSE periodic_timer_action_
     IN  /\ actions' = a2
         /\ initial_timer_action_' = i1
         /\ periodic_timer_action_' = p1
         /\ peakLive' = Max(peakLive, Live(i1, p1))
  /\ dispatch_controller_' = TRUE
  /\ ran' = TRUE
  /\ UNCHANGED <<type_, period_in_ms_, initial_period_in_ms_, now, callbacks,
                 dispatches, cancelLog, deleteLog, contDestroyed,
                 stateReleased, useAfterRelease, threads>>

\* ------------------------------------------------------------ handleTimerEvent

\* if (state->initial_timer_action_)
IsInitialEvent == initial_timer_action_ # NULL

\* A slip: the handler forgets to clear the handle of the event that fired.
ClearedInitial_Kept == initial_timer_action_

\* initial_timer_action_ after the handler's first block
ClearedInitial == IF IsInitialEvent THEN NULL ELSE initial_timer_action_

\* A slip: the periodic event is armed outside the first block, on every fire.
HandlerArmsPeriodic_EveryFire == type_ = TYPE_PERIODIC

\* A slip: the type is not tested; a one-off timer is rearmed too.
HandlerArmsPeriodic_AnyType == IsInitialEvent

\* A slip: the handler never arms the periodic event.
HandlerArmsPeriodic_Never == FALSE

\* if (state->type_ == AsyncTimer::TYPE_PERIODIC), inside the first block
HandlerArmsPeriodic == IsInitialEvent /\ type_ = TYPE_PERIODIC

\* A slip: the periodic event is armed with the initial period.
HandlerPeriod_Initial == initial_period_in_ms_

\* The period the handler passes to TSContScheduleEvery.
HandlerPeriod == period_in_ms_

\* A slip: the result of dispatch() is ignored and the timer lives on.
SelfDeletes_Never(r) == FALSE

\* A slip: the test is inverted; the timer deletes itself when the receiver lives.
SelfDeletes_Inverted(r) == r

\* if (!state->dispatch_controller_->dispatch())
SelfDeletes(r) == ~r

\* A slip: dispatch() moved into an else branch, skipped on the initial event.
DispatchCall_SkipsInitial(log, cb, t, r) ==
  IF IsInitialEvent THEN log ELSE Append(log, [cb |-> cb, at |-> t, result |-> r])

\* state->dispatch_controller_->dispatch(), made in callback cb at time t
\* and returning r.
DispatchCall(log, cb, t, r) ==
  Append(log, [cb |-> cb, at |-> t, result |-> r])

\* The host delivers event h to the continuation at the event's due time;
\* dispatch() returns r.
handleTimerEvent(h, r) ==
  /\ callbacks < MaxFires
  /\ NextDue(actions, h)
  /\ now' = Max(now, actions[h].due)
  /\ callbacks' = callbacks + 1
  /\ IF stateReleased > 0
       THEN /\ useAfterRelease' = TRUE
            /\ actions' = Delivered(actions, h)
            /\ UNCHANGED <<initial_timer_action_, periodic_timer_action_,
                           dispatches, cancelLog, deleteLog, peakLive,
                           contDestroyed, stateReleased>>
       ELSE
         LET a0 == Delivered(actions, h)
             i1 == ClearedInitial
             a1 == IF HandlerArmsPeriodic
                     THEN TSContScheduleEvery(a0, HandlerPeriod, now', "handler")
                     ELSE a0
             p1 == IF HandlerArmsPeriodic THEN Len(a1) ELSE periodic_timer_action_
             \* handles live after the clear, and after the arming
             mid == Live(i1, periodic_timer_action_)
             end == Live(i1, p1)
         IN  /\ initial_timer_action_' = i1
             /\ periodic_timer_action_' = p1
             /\ peakLive' = Max(peakLive, Max(mid, end))
             /\ dispatches' = DispatchCall(dispatches, callbacks', now', r)
             /\ IF SelfDeletes(r)
                  THEN /\ actions' = DtorActions(a1, i1, p1)
                       /\ cancelLog' = DtorCancelLog(cancelLog, a1, i1, p1)
                       /\ deleteLog' = Append(deleteLog,
                                          [by |-> "self", cb |-> callbacks'])
                       /\ contDestroyed' = contDestroyed + 1
                       /\ stateReleased' = stateReleased + 1
                  ELSE /\ actions' = a1
                       /\ UNCHANGED <<cancelLog, deleteLog, contDestroyed,
                                      stateReleased>>
             /\ UNCHANGED useAfterRelease
  /\ UNCHANGED <<type_, period_in_ms_, initial_period_in_ms_,
                 dispatch_controller_, ran, threads>>

HostFire == \E h \in 1..Len(actions) : \E r \in BOOLEAN : handleTimerEvent(h, r)

\* ------------------------------------------------------------ specifications

Next == run \/ HostFire \/ CallerDelete

Spec == Init /\ [][Next]_vars

\* The host loop delivers a pending event eventually.
FairSpec == Spec /\ WF_vars(HostFire)

\* ------------------------------------------------------------ two threads
\* The caller's thread runs run() and the destructor; a worker thread of
\* the host runs handleTimerEvent.  The continuation is created with a NULL
\* mutex, so nothing orders the two: each operation is cut where the other
\* thread can come between.  The caller deletes the timer only while its
\* receiver lives, that is while no dispatch() has returned false, and
\* dispatch() returns false only when the caller is not deleting the timer.
\* A use of released state or of the unset controller is undefined
\* behaviour: it is recorded and the invocation is followed no further.

ctorArgs == <<type_, period_in_ms_, initial_period_in_ms_>>

\* run(), up to the arming of the event (lines 68-86)
run_arm ==
  /\ pcCaller = "idle"
  /\ ~ran
  /\ stateReleased = 0
  /\ LET a1 == IF RunArmsInitial
                 THEN TSContSchedule(actions, one_off_timeout_in_ms, now, "run")
                 ELSE actions
         i1 == IF RunArmsInitial THEN Len(a1) ELSE initial_timer_action_
         a2 == IF RunArmsPeriodic
                 THEN TSContScheduleEvery(a1, regular_timeout_in_ms, now, "run")
                 ELSE a1
         p1 == IF RunArmsPeriodic THEN Len(a2) ELSE periodic_timer_action_
     IN  /\ actions' = a2
         /\ initial_timer_action_' = i1
         /\ periodic_timer_action_' = p1
         /\ peakLive' = Max(peakLive, Live(i1, p1))
  /\ ran' = TRUE
  /\ pcCaller' = "run_store"
  /\ UNCHANGED <<ctorArgs, dispatch_controller_, now, callbacks, dispatches,
                 cancelLog, deleteLog, contDestroyed, stateReleased,
                 useAfterRelease, unsetControllerUse, pcHandler>>

\* run(), the store of the controller (line 87)
run_store ==
  /\ pcCaller = "run_store"
  /\ dispatch_controller_' = TRUE
  /\ pcCaller' = "idle"
  /\ UNCHANGED <<ctorArgs, initial_timer_action_, periodic_timer_action_, ran,
                 actions, now, callbacks, dispatches, cancelLog, deleteLog,
                 peakLive, contDestroyed, stateReleased, useAfterRelease,
                 unsetControllerUse, pcHandler>>

\* The receiver lives: no dispatch() has returned false.
ReceiverAlive == \A k \in 1..Len(dispatches) : dispatches[k].result

\* ~AsyncTimer run by the caller, the two cancels (lines 91-98)
dtor_cancel ==
  /\ pcCaller = "idle"
  /\ stateReleased = 0
  /\ ReceiverAlive
  /\ actions' = DtorActions(actions, initial_timer_action_, periodic_timer_action_)
  /\ cancelLog' = DtorCancelLog(cancelLog, actions, initial_timer_action_,
                                periodic_timer_action_)
  /\ pcCaller' = "dtor_release"
  /\ UNCHANGED <<ctorArgs, initial_timer_action_, periodic_timer_action_,
                 dispatch_controller_, ran, now, callbacks, dispatches,
                 deleteLog, peakLive, contDestroyed, stateReleased,
                 useAfterRelease, unsetControllerUse, pcHandler>>

\* ~AsyncTimer run by the caller, TSContDestroy and delete state_ (lines 100-101)
dtor_release ==
  /\ pcCaller = "dtor_release"
  /\ deleteLog' = Append(deleteLog, [by |-> "caller", cb |-> 0])
  /\ contDestroyed' = contDestroyed + 1
  /\ stateReleased' = stateReleased + 1
  /\ pcCaller' = "deleted"
  /\ UNCHANGED <<ctorArgs, initial_timer_action_, periodic_timer_action_,
                 dispatch_controller_, ran, actions, now, callbacks,
                 dispatches, cancelLog, peakLive, useAfterRelease,
                 unsetControllerUse, pcHandler>>

\* The host delivers event h on a worker thread, and the handler runs its
\* first block (lines 41-50).
handler_begin(h) ==
  /\ pcHandler = "idle"
  /\ callbacks < MaxFires
  /\ NextDue(actions, h)
  /\ now' = Max(now, actions[h].due)
  /\ callbacks' = callbacks + 1
  /\ IF stateReleased > 0
       THEN /\ useAfterRelease' = TRUE
            /\ actions' = Delivered(actions, h)
            /\ UNCHANGED <<initial_timer_action_, periodic_timer_action_,
                           peakLive, pcHandler>>
       ELSE
         LET a0 == Delivered(actions, h)
             i1 == ClearedInitial
             a1 == IF HandlerArmsPeriodic
                     THEN TSContScheduleEvery(a0, HandlerPeriod, now', "handler")
                     ELSE a0
             p1 == IF HandlerArmsPeriodic THEN Len(a1) ELSE periodic_timer_action_
         IN  /\ actions' = a1
             /\ initial_timer_action_' = i1
             /\ periodic_timer_action_' = p1
             /\ peakLive' = Max(peakLive, Max(Live(i1, periodic_timer_action_),
                                              Live(i1, p1)))
             /\ pcHandler' = "dispatch"
             /\ UNCHANGED useAfterRelease
  /\ UNCHANGED <<ctorArgs, dispatch_controller_, ran, dispatches, cancelLog,
                 deleteLog, contDestroyed, stateReleased, unsetControllerUse,
                 pcCaller>>

\* The handler reads state->dispatch_controller_, calls dispatch(), which
\* returns r, and deletes the timer on false (lines 51-55).
handler_dispatch(r) ==
  /\ pcHandler = "dispatch"
  /\ pcHandler' = "idle"
  /\ IF stateReleased > 0
       THEN /\ useAfterRelease' = TRUE
            /\ UNCHANGED <<unsetControllerUse, dispatches, actions, cancelLog,
                           deleteLog, contDestroyed, stateReleased>>
       ELSE IF ~dispatch_controller_
       THEN /\ unsetControllerUse' = TRUE
            /\ UNCHANGED <<useAfterRelease, dispatches, actions, cancelLog,
                           deleteLog, contDestroyed, stateReleased>>
       ELSE /\ r \/ pcCaller = "idle"
            /\ dispatches' = DispatchCall(dispatches, callbacks, now, r)
            /\ IF SelfDeletes(r)
                 THEN /\ actions' = DtorActions(actions, initial_timer_action_,
                                                periodic_timer_action_)
                      /\ cancelLog' = DtorCancelLog(cancelLog, actions,
                                         initial_timer_action_,
                                         periodic_timer_action_)
                      /\ deleteLog' = Append(deleteLog,
                                         [by |-> "self", cb |-> callbacks])
                      /\ contDestroyed' = contDestroyed + 1
                      /\ stateReleased' = stateReleased + 1
                 ELSE UNCHANGED <<actions, cancelLog, deleteLog, contDestroyed,
                                  stateReleased>>
            /\ UNCHANGED <<useAfterRelease, unsetControllerUse>>
  /\ UNCHANGED <<ctorArgs, initial_timer_action_, periodic_timer_action_,
                 dispatch_controller_, ran, now, callbacks, peakLive, pcCaller>>

HostDeliver == \E h \in 1..Len(actions) : handler_begin(h)

HandlerResume == \E r \in BOOLEAN : handler_dispatch(r)

ThreadsNext ==
  \/ run_arm
  \/ run_store
  \/ dtor_cancel
  \/ dtor_release
  \/ HostDeliver
  \/ HandlerResume

ThreadsSpec == Init /\ [][ThreadsNext]_vars

\* ------------------------------------------------------------ properties

Alive == stateReleased = 0

HandlerArmed == {h \in 1..Len(actions) : actions[h].by = "handler"}

\* C1: at every program point of every operation at most one of
\* initial_timer_action_ and periodic_timer_action_ is non-NULL; when the
\* initial event fires on a periodic timer the initial handle is cleared
\* before the periodic event is armed.
C1_AtMostOneLive ==
  /\ peakLive <= 1
  /\ Live(initial_timer_action_, periodic_timer_action_) <= 1

\* The initial event of a periodic timer has fired and the periodic event
\* has been armed by the handler.
C1_Witness ==
  /\ type_ = TYPE_PERIODIC
  /\ HandlerArmed # {}
  /\ initial_timer_action_ = NULL
  /\ periodic_timer_action_ # NULL

\* run() has returned and nothing else has happened since.
JustRan == ran /\ callbacks = 0 /\ Alive

\* The constructor arguments for which run() has a nonzero timeout to arm.
HasTimeout ==
  \/ type_ = TYPE_ONE_OFF /\ period_in_ms_ > 0
  \/ type_ = TYPE_PERIODIC /\ (initial_period_in_ms_ > 0 \/ period_in_ms_ > 0)

\* C2 (as amended): run() arms at most one handle, never two: exactly one
\* when the timeout it selects is nonzero, and none when it is zero (a
\* one-off timer with period 0, a periodic timer with both periods 0).
C2_RunArmsOneOrNone ==
  JustRan =>
    /\ Live(initial_timer_action_, periodic_timer_action_)
         = (IF HasTimeout THEN 1 ELSE 0)
    /\ Len(actions) = (IF HasTimeout THEN 1 ELSE 0)

\* C2 (as stated): for every type and every pair of non-negative periods,
\* run() leaves exactly one handle armed.
C2_Original ==
  JustRan => Live(initial_timer_action_, periodic_timer_action_) = 1

\* run() on a periodic timer whose two periods are both nonzero armed one handle.
C2_Witness ==
  /\ JustRan
  /\ type_ = TYPE_PERIODIC /\ initial_period_in_ms_ > 0 /\ period_in_ms_ > 0
  /\ initial_timer_action_ # NULL
  /\ periodic_timer_action_ = NULL

\* C3: once a dispatch() has returned false, on whichever fire, the
\* continuation has been destroyed exactly once, the state released exactly
\* once, that callback is the last one, and the host holds no event that
\* could invoke the handler again.
C3_FalseDispatchDestroysOnce ==
  \A k \in 1..Len(dispatches) :
    ~dispatches[k].result =>
      /\ k = Len(dispatches)
      /\ callbacks = k
      /\ contDestroyed = 1
      /\ stateReleased = 1
      /\ Pending(actions) = {}

\* dispatch() returned false on a later fire of a periodic timer.
C3_Witness ==
  /\ type_ = TYPE_PERIODIC
  /\ Len(dispatches) >= 2
  /\ ~dispatches[Len(dispatches)].result

\* C4: TSActionCancel is applied only to a handle whose event is still
\* pending (never one that has fired or was cancelled), never twice to one
\* handle, and at most once in all; after the fire of a one-off timer the
\* destructor cancels nothing.
C4_CancelOnlyArmed ==
  /\ \A k \in 1..Len(cancelLog) : cancelLog[k].was = "pending"
  /\ \A j, k \in 1..Len(cancelLog) :
       cancelLog[j].handle = cancelLog[k].handle => j = k
  /\ Len(cancelLog) <= 1
  /\ (type_ = TYPE_ONE_OFF /\ callbacks >= 1) => cancelLog = <<>>

\* A one-off timer was destroyed after its fire, and nothing was cancelled.
C4_Witness ==
  /\ type_ = TYPE_ONE_OFF
  /\ callbacks = 1
  /\ stateReleased = 1
  /\ cancelLog = <<>>

\* C5: while a periodic timer lives, after its first fire and after every
\* later one, the initial handle is NULL and exactly one periodic event is
\* armed; the handler arms the periodic event at most once in all.
C5_OnePeriodicHandle ==
  /\ Cardinality(HandlerArmed) <= 1
  /\ (type_ = TYPE_PERIODIC /\ callbacks >= 1 /\ Alive) =>
       /\ initial_timer_action_ = NULL
       /\ periodic_timer_action_ # NULL
       /\ Pending(actions) = {periodic_timer_action_}
       /\ actions[periodic_timer_action_].kind = "every"

\* A periodic timer started with an initial period lives after its third fire.
C5_Witness ==
  /\ type_ = TYPE_PERIODIC
  /\ initial_period_in_ms_ > 0
  /\ callbacks >= 3
  /\ Alive
  /\ periodic_timer_action_ # NULL

\* C6 (as amended): a one-off timer never makes a second dispatch(), and
\* one with period_ms > 0 on which run() has been called makes its one
\* dispatch() eventually unless it is destroyed first; with period_ms = 0
\* run() arms nothing and no callback ever occurs.
C6_OneOffFiresOnce ==
  /\ [](type_ = TYPE_ONE_OFF => (Len(dispatches) <= 1 /\ callbacks <= 1))
  /\ (type_ = TYPE_ONE_OFF /\ ran /\ period_in_ms_ > 0)
       ~> (Len(dispatches) = 1 \/ ~Alive)
  /\ [](type_ = TYPE_ONE_OFF /\ period_in_ms_ = 0 => callbacks = 0)

\* C6 (as stated): for every non-negative period_ms, a one-off timer on
\* which run() has been called and which is not destroyed first makes
\* exactly one dispatch(): eventually one, never a second.
C6_Original ==
  /\ [](type_ = TYPE_ONE_OFF => Len(dispatches) <= 1)
  /\ (type_ = TYPE_ONE_OFF /\ ran) ~> (Len(dispatches) = 1 \/ ~Alive)

\* A one-off timer has fired, its dispatch() returned true, and it lives on.
C6_Witness ==
  /\ type_ = TYPE_ONE_OFF
  /\ Len(dispatches) = 1
  /\ dispatches[1].result
  /\ Alive
  /\ Pending(actions) = {}

\* The timer is periodic, run() has been called and the timer lives.
PeriodicRunning == type_ = TYPE_PERIODIC /\ ran /\ Alive

C8_OneDispatchPerCallback ==
  /\ Len(dispatches) = callbacks
  /\ \A k \in 1..Len(dispatches) : dispatches[k].cb = k

\* The invocation in which the initial event fired and the periodic event
\* was armed has made its dispatch().
C8_Witness ==
  /\ type_ = TYPE_PERIODIC
  /\ HandlerArmed # {}
  /\ callbacks = 1
  /\ Len(dispatches) = 1

SelfDeleted == {k \in 1..Len(deleteLog) : deleteLog[k].by = "self"}

\* C9: the timer deletes itself exactly in the handler invocations whose
\* dispatch() returned false, inside that invocation; the constructor,
\* run() and a fire whose dispatch() returned true delete nothing, and a
\* deletion by the caller happens outside any invocation.
C9_SelfDeleteIffDispatchFalse ==
  /\ \A k \in 1..Len(dispatches) :
       (~dispatches[k].result) <=> (\E d \in SelfDeleted : deleteLog[d].cb = k)
  /\ \A d \in SelfDeleted : deleteLog[d].cb \in 1..Len(dispatches)
  /\ Cardinality(SelfDeleted) <= 1
  /\ callbacks = 0 => SelfDeleted = {}
  /\ \A d \in 1..Len(deleteLog) : d \notin SelfDeleted => deleteLog[d].cb = 0

\* The timer deleted itself in its second fire, after a first that returned true.
C9_Witness ==
  /\ Len(dispatches) = 2
  /\ dispatches[1].result
  /\ ~dispatches[2].result
  /\ deleteLog = <<[by |-> "self", cb |-> 2]>>

\* The schedule requests made of the host, in order.
Requests ==
  [h \in 1..Len(actions) |->
     [kind |-> actions[h].kind, ms |-> actions[h].period, by |-> actions[h].by]]

Once(ms, who) == [kind |-> "once", ms |-> ms, by |-> who]

Every(ms, who) == [kind |-> "every", ms |-> ms, by |-> who]

\* What a periodic timer has requested once run() has been called.
PeriodicRequests ==
  IF initial_period_in_ms_ # 0
    THEN IF callbacks = 0
           THEN <<Once(initial_period_in_ms_, "run")>>
           ELSE <<Once(initial_period_in_ms_, "run"),
                  Every(period_in_ms_, "handler")>>
    ELSE IF period_in_ms_ # 0
           THEN <<Every(period_in_ms_, "run")>>
           ELSE <<>>

\* C10 (as amended): before run() nothing is requested.  After it, a
\* one-off timer with period_ms > 0 has requested scheduleOnce(period_ms)
\* and nothing else, whatever initial_period_ms is; a periodic timer with
\* initial_period_ms > 0 has requested scheduleOnce(initial_period_ms) in
\* run() and, from its first fire on, scheduleEvery(period_ms) in the
\* handler; a periodic timer with initial_period_ms = 0 and period_ms > 0
\* has requested scheduleEvery(period_ms) in run() and never scheduleOnce;
\* a one-off timer with period_ms = 0 and a periodic timer with both
\* periods 0 request nothing.
C10_ScheduleMatchesArguments ==
  /\ ~ran => Requests = <<>>
  /\ (ran /\ type_ = TYPE_ONE_OFF) =>
       Requests = (IF period_in_ms_ # 0
                     THEN <<Once(period_in_ms_, "run")>> ELSE <<>>)
  /\ (ran /\ type_ = TYPE_PERIODIC) => Requests = PeriodicRequests

\* C10 (as stated): after run() a one-off timer has requested one
\* scheduleOnce(period_ms); a periodic timer with initial_period_ms = 0 has
\* requested scheduleEvery(period_ms) in run(); one with a nonzero
\* initial_period_ms scheduleOnce(initial_period_ms) in run() and
\* scheduleEvery(period_ms) at the first fire.
C10_Original ==
  /\ (ran /\ type_ = TYPE_ONE_OFF) => Requests = <<Once(period_in_ms_, "run")>>
  /\ (ran /\ type_ = TYPE_PERIODIC /\ initial_period_in_ms_ = 0) =>
       Requests = <<Every(period_in_ms_, "run")>>
  /\ (ran /\ type_ = TYPE_PERIODIC /\ initial_period_in_ms_ # 0) =>
       Requests = PeriodicRequests

\* A periodic timer whose two periods differ has made both of its requests.
C10_Witness ==
  /\ type_ = TYPE_PERIODIC
  /\ initial_period_in_ms_ # 0
  /\ period_in_ms_ # 0
  /\ period_in_ms_ # initial_period_in_ms_
  /\ Len(Requests) = 2

CallerDeleted == \E d \in 1..Len(deleteLog) : deleteLog[d].by = "caller"

\* C11: the destructor run by the caller cancels the outstanding action
\* before it destroys the continuation and releases the state, so that a
\* destroyed timer has no event pending and no callback is delivered for it
\* afterwards; and an action is cancelled in no step other than a run of
\* the destructor.
C11_DestructionCancelsSynchronously ==
  /\ [](CallerDeleted =>
          /\ Pending(actions) = {}
          /\ \A k \in 1..Len(cancelLog) :
               cancelLog[k].contDestroyed = 0 /\ cancelLog[k].stateReleased = 0)
  /\ [][CallerDeleted => callbacks' = callbacks]_vars
  /\ [][(~CallerDeleted /\ CallerDeleted') =>
          {cancelLog'[k].handle : k \in (Len(cancelLog) + 1)..Len(cancelLog')}
            = Pending(actions)]_vars
  /\ [][cancelLog' # cancelLog => stateReleased' = stateReleased + 1]_vars

\* The caller destroyed a periodic timer between two fires, and the
\* destructor cancelled the armed periodic event.
C11_Witness ==
  /\ CallerDeleted
  /\ type_ = TYPE_PERIODIC
  /\ callbacks >= 1
  /\ Len(cancelLog) = 1
  /\ cancelLog[1].handle = periodic_timer_action_
  /\ cancelLog[1].was = "pending"

\* C12: for a periodic timer with initial_period_ms = i > 0 and
\* period_ms = p > 0 started at time 0, the k-th dispatch() is made at time
\* i + (k-1)*p; once a dispatch(), the n-th, has returned false there have
\* been exactly n callbacks, the timer deleted itself in the n-th, and
\* nothing is pending for an (n+1)-th.
C12_PeriodicSchedule ==
  (type_ = TYPE_PERIODIC /\ initial_period_in_ms_ > 0 /\ period_in_ms_ > 0) =>
    \A k \in 1..Len(dispatches) :
      /\ dispatches[k].at = initial_period_in_ms_ + (k - 1) * period_in_ms_
      /\ ~dispatches[k].result =>
           /\ Len(dispatches) = k
           /\ callbacks = k
           /\ deleteLog = <<[by |-> "self", cb |-> k]>>
           /\ Pending(actions) = {}

\* The scenario: initial 50 ms, period 200 ms, the receiver alive for three
\* fires and gone at the fourth.
C12_Witness ==
  /\ type_ = TYPE_PERIODIC
  /\ initial_period_in_ms_ = 50
  /\ period_in_ms_ = 200
  /\ Len(dispatches) = 4
  /\ [k \in 1..4 |-> dispatches[k].at] = <<50, 250, 450, 650>>
  /\ [k \in 1..4 |-> dispatches[k].result] = <<TRUE, TRUE, TRUE, FALSE>>
  /\ stateReleased = 1
  /\ Pending(actions) = {}

\* C15: every scheduleOnce and scheduleEvery request made of the host, by
\* run() or by the handler, carries a strictly positive delay or period.
C15_NoZeroDelayRequest ==
  \A h \in 1..Len(actions) : actions[h].period > 0

\* The timer is periodic, was started with a nonzero initial period, and
\* the dispatch() of its first fire returned false.
FirstFireFalse ==
  /\ type_ = TYPE_PERIODIC
  /\ initial_period_in_ms_ # 0
  /\ Len(dispatches) >= 1
  /\ ~dispatches[1].result

\* C16: when dispatch() returns false on the first fire of a periodic timer
\* started with a nonzero initial period, the periodic event armed in that
\* invocation is cancelled exactly once, while still pending, inside that
\* invocation; the initial event, which has fired, is not cancelled; and no
\* periodic fire occurs.
C16_FirstFireFalseCancelsPeriodic ==
  FirstFireFalse =>
    /\ Len(cancelLog) = 1
    /\ cancelLog[1].handle = periodic_timer_action_
    /\ cancelLog[1].handle \in HandlerArmed
    /\ cancelLog[1].was = "pending"
    /\ actions[periodic_timer_action_].status = "cancelled"
    /\ \A h \in 1..Len(actions) :
         actions[h].kind = "once" => actions[h].status = "fired"
    /\ deleteLog = <<[by |-> "self", cb |-> 1]>>
    /\ callbacks = 1
    /\ Pending(actions) = {}

\* The first fire of such a timer returned false and the timer is gone.
C16_Witness ==
  /\ FirstFireFalse
  /\ period_in_ms_ # 0
  /\ stateReleased = 1
  /\ Len(actions) = 2

\* C17: a timer on which run() was never called, or whose run() had no
\* nonzero timeout to arm, never gets a callback or a dispatch(); destroying
\* it cancels nothing and destroys the continuation exactly once.
C17_UnarmedTimerDestroyedCleanly ==
  (~ran \/ ~HasTimeout) =>
    /\ actions = <<>>
    /\ callbacks = 0
    /\ dispatches = <<>>
    /\ cancelLog = <<>>
    /\ ~Alive => (contDestroyed = 1 /\ stateReleased = 1)

\* A timer whose run() armed nothing has been destroyed.
C17_Witness ==
  /\ ran
  /\ ~HasTimeout
  /\ ~Alive
  /\ contDestroyed = 1

\* C13: in every interleaving of the caller's destructor with the host's
\* callbacks the handler never uses the timer state after the destructor
\* has released it, and the timer is never destroyed twice.
C13_NoUseAfterRelease ==
  /\ ~useAfterRelease
  /\ stateReleased <= 1
  /\ contDestroyed <= 1

\* C14: whenever the handler calls dispatch(), run() has already stored
\* the dispatch controller in the timer state.
C14_ControllerStoredAtDispatch == ~unsetControllerUse

====
